---------------------------- MODULE Spec2Model ----------------------------
(***************************************************************************)
(* Findit: the messaging subsystem of the lost-and-found board.            *)
(*                                                                         *)
(* The model follows the edge function (src/unnamed/part_003): the auth    *)
(* middleware requireAuth and the handlers behind it, each cut into one    *)
(* atomic step per `await` on the key-value store.  Requests run           *)
(* concurrently in NumReqs slots and interleave at those awaits.           *)
(*                                                                         *)
(* Strings are sequences of one-character strings, so concatenation,       *)
(* prefix matching, sorting and trimming are computed, not assumed.  The   *)
(* only multi-character element is the literal namespace of a store key    *)
(* ("item:", "conversation:", ...), the first element of every key.        *)
(***************************************************************************)
EXTENDS Integers, Sequences, FiniteSets, TLC

(***************************************************************************)
(* Bounds of the model.                                                    *)
(***************************************************************************)
NumReqs == 2         \* request slots served concurrently
MaxTicks == 1        \* milliseconds the clock may advance past T0
MaxMsgs == 2         \* size of the pool crypto.randomUUID() draws from
MaxRequests == 3     \* requests that arrive in one behaviour
MaxGets == 1         \* further GET requests that arrive, where reads are studied
MaxCalls == 4        \* requests the users' actions cause, where the dialog is studied
MaxSends == 1        \* messages sent, where the dialog is studied

(***************************************************************************)
(* Characters and strings.                                                 *)
(***************************************************************************)
\* UTF-16 code unit of each character the model uses (ASCII).
Ord(ch) ==
    CASE ch = " " -> 32
      [] ch = "-" -> 45
      [] ch = "." -> 46
      [] ch = "0" -> 48 [] ch = "1" -> 49 [] ch = "2" -> 50 [] ch = "3" -> 51
      [] ch = "4" -> 52 [] ch = "5" -> 53 [] ch = "6" -> 54 [] ch = "7" -> 55
      [] ch = "8" -> 56 [] ch = "9" -> 57
      [] ch = ":" -> 58
      [] ch = "Z" -> 90
      [] ch = "_" -> 95
      [] ch = "a" -> 97 [] ch = "b" -> 98 [] ch = "c" -> 99
      [] ch = "d" -> 100 [] ch = "e" -> 101 [] ch = "f" -> 102
      [] ch = "h" -> 104 [] ch = "i" -> 105 [] ch = "j" -> 106
      [] OTHER -> 127

RECURSIVE StrLess(_, _)
\* s < t in the order Array.prototype.sort() uses for strings.
StrLess(s, t) ==
    IF t = <<>> THEN FALSE
    ELSE IF s = <<>> THEN TRUE
    ELSE IF Ord(Head(s)) # Ord(Head(t)) THEN Ord(Head(s)) < Ord(Head(t))
    ELSE StrLess(Tail(s), Tail(t))

StartsWith(s, prefix) ==
    /\ Len(prefix) <= Len(s)
    /\ SubSeq(s, 1, Len(prefix)) = prefix

Digit(d) == <<"0", "1", "2", "3", "4", "5", "6", "7", "8", "9">>[d + 1]

DigitValue(ch) == Ord(ch) - 48

RECURSIVE Dec(_)
\* `${n}` : the decimal digits of a non-negative integer, no padding.
Dec(n) == IF n < 10 THEN <<Digit(n)>> ELSE Dec(n \div 10) \o <<Digit(n % 10)>>

RECURSIVE ParseDec(_)
ParseDec(s) ==
    IF s = <<>> THEN 0
    ELSE 10 * ParseDec(SubSeq(s, 1, Len(s) - 1)) + DigitValue(s[Len(s)])

RECURSIVE Pad(_, _)
Pad(s, w) == IF Len(s) >= w THEN s ELSE Pad(<<"0">> \o s, w)

\* new Date().toISOString() restricted to its seconds and milliseconds
\* fields, "ss.mmmZ": fixed width, millisecond resolution.
ToISOString(t) ==
    Pad(Dec((t \div 1000) % 60), 2) \o <<".">> \o Pad(Dec(t % 1000), 3) \o <<"Z">>

\* new Date(iso).getTime()
GetTime(iso) == 1000 * ParseDec(SubSeq(iso, 1, 2)) + ParseDec(SubSeq(iso, 4, 6))

IsSpace(ch) == ch \in {" "}

RECURSIVE Trim(_)
\* String.prototype.trim()
Trim(s) ==
    IF s = <<>> THEN s
    ELSE IF IsSpace(Head(s)) THEN Trim(Tail(s))
    ELSE IF IsSpace(s[Len(s)]) THEN Trim(SubSeq(s, 1, Len(s) - 1))
    ELSE s

(***************************************************************************)
(* The finite world the requests are drawn from.                           *)
(***************************************************************************)
UserA == <<"a">>
UserB == <<"b">>
UserC == <<"c">>
Users == {UserA, UserB, UserC}

Item1 == <<"i">>     \* an item record exists, owned by UserB
Item2 == <<"j">>     \* no item record
Item3 == <<"k">>     \* an item record exists, owned by UserC
ItemIds == {Item1, Item2}

Texts == {<<>>, <<" ">>, <<"h">>}

T0 == 10             \* clock reading in the initial state

HexPool == <<"e", "d", "f", "7", "3">>
UUIDs == {<<HexPool[k]>> : k \in 1..MaxMsgs}

Reqs == 1..NumReqs


(***************************************************************************)
(* JSON values.  Null stands for JavaScript's null/undefined wherever a    *)
(* record is expected; Undefined for a missing string.                     *)
(***************************************************************************)
Null == [null |-> TRUE]
Undefined == <<"undefined">>

(***************************************************************************)
(* State.                                                                  *)
(***************************************************************************)
VARIABLES
    kv,         \* the key-value table: key -> value
    now,        \* the millisecond clock behind Date.now() and new Date()
    req,        \* per slot: the request being served and its handler's locals
    response,   \* the HTTP response the last step sent, if it sent one
    used,       \* values crypto.randomUUID() has already returned
    sendOrder,  \* history: ids of the messages built by POST /messages, in order
    served,     \* history: number of requests that have arrived
    dialog      \* the client: the state of the item detail dialog of DialogUser

vars == <<kv, now, req, response, used, sendOrder, served, dialog>>

(***************************************************************************)
(* The KV store adapter (kv_store.tsx).                                    *)
(***************************************************************************)
\* kv.get(key): the stored value, or a not-found signal.
KvGet(store, key) == IF key \in DOMAIN store THEN store[key] ELSE Null

\* kv.set(key, value): upsert.
KvSet(store, key, value) ==
    [k \in (DOMAIN store) \cup {key} |-> IF k = key THEN value ELSE store[k]]

\* All orders in which the elements of S can be listed.
Orders(S) ==
    {f \in [1..Cardinality(S) -> S] : \A i, j \in 1..Cardinality(S) : f[i] = f[j] => i = j}

\* kv.getByPrefix(prefix): the values whose key starts with prefix.  The
\* store promises no order, so every order is a possible result.
KvGetByPrefix(store, prefix) ==
    LET keys == {k \in DOMAIN store : StartsWith(k, prefix)}
    IN  {[i \in 1..Cardinality(keys) |-> store[o[i]]] : o \in Orders(keys)}

ItemKey(itemId) == <<"item:">> \o itemId
UserKey(userId) == <<"user:">> \o userId
ConversationKey(conversationId) == <<"conversation:">> \o conversationId
MessageKey(messageId) == <<"message:">> \o messageId
UserConversationKey(userId, conversationId) ==
    <<"userConversation:">> \o userId \o <<":">> \o conversationId
UserItemKey(userId, itemId) == <<"userItem:">> \o userId \o <<":">> \o itemId

UserConversationPrefix(userId) == <<"userConversation:">> \o userId \o <<":">>
UserItemPrefix(userId) == <<"userItem:">> \o userId \o <<":">>
MessagePrefix(conversationId) == <<"message:">> \o conversationId \o <<":">>

IsConversationKey(k) == Head(k) = "conversation:"
IsMessageKey(k) == Head(k) = "message:"
IsUserConversationKey(k) == Head(k) = "userConversation:"

(***************************************************************************)
(* Array.prototype.sort with a comparator (a, b) => key(a) - key(b): a     *)
(* stable sort by a numeric key, here by insertion.  The elements are      *)
(* records [key, value].                                                   *)
(***************************************************************************)
RECURSIVE Insert(_, _)
\* Insert x into the sorted sequence s, after every element whose key is
\* not greater.
Insert(s, x) ==
    IF s = <<>> THEN <<x>>
    ELSE IF x.key < Head(s).key THEN <<x>> \o s
    ELSE <<Head(s)>> \o Insert(Tail(s), x)

RECURSIVE Sort(_)
Sort(s) ==
    IF s = <<>> THEN <<>>
    ELSE Insert(Sort(SubSeq(s, 1, Len(s) - 1)), s[Len(s)])

Values(s) == [i \in 1..Len(s) |-> s[i].value]

(***************************************************************************)
(* Conversation identity.                                                  *)
(***************************************************************************)
\* [userId, item.userId] left in the order given.
ParticipantsUnsorted(userId, ownerId) == <<userId, ownerId>>

\* [userId, item.userId].sort(): the default order of strings, stable.
Participants(userId, ownerId) ==
    IF StrLess(ownerId, userId) THEN <<ownerId, userId>> ELSE <<userId, ownerId>>

\* ConversationId with the item first and the participants after it.
ConversationIdItemFirst(participants, itemId) ==
    itemId \o <<"_">> \o participants[1] \o <<"_">> \o participants[2]

\* `${participants[0]}_${participants[1]}_${itemId}`
ConversationId(participants, itemId) ==
    participants[1] \o <<"_">> \o participants[2] \o <<"_">> \o itemId

\* MessageId without the random suffix: the conversation and the millisecond.
MessageIdUnsuffixed(conversationId, ms, uuid) ==
    conversationId \o <<":">> \o Dec(ms)

\* `${conversationId}:${Date.now()}:${crypto.randomUUID()}`
MessageId(conversationId, ms, uuid) ==
    conversationId \o <<":">> \o Dec(ms) \o <<":">> \o uuid

\* conversation.participants.includes(userId)
Includes(participants, userId) == \E i \in 1..Len(participants) : participants[i] = userId

(***************************************************************************)
(* Requests.                                                               *)
(***************************************************************************)
PostConversations == "POST /conversations"
PostMessages == "POST /messages"
GetConversations == "GET /conversations"
GetMessages == "GET /messages/:conversationId"
GetMyItems == "GET /my-items"
Routes == {PostConversations, PostMessages, GetConversations, GetMessages, GetMyItems}
PostRoutes == {PostConversations, PostMessages}

Bearer == <<"B", "e", "a", "r", "e", "r">>
TokenOf(userId) == <<"t", "o", "k">> \o userId

\* Authorization headers a client can send: none, a scheme without a token,
\* an empty token, the token "null" of a client with no stored session,
\* and each user's valid session token.
Headers ==
    {Undefined, Bearer, Bearer \o <<" ">>, Bearer \o <<" ", "n", "u", "l", "l">>}
        \cup {Bearer \o <<" ">> \o TokenOf(u) : u \in Users}

\* Conversation ids a client can name: those derivable for Item1, and one
\* that no request can create.
ConversationIds ==
    {ConversationId(Participants(u, UserB), Item1) : u \in Users}
        \cup {ConversationId(<<UserA, UserB>>, Item2)}

\* A slot that serves no request.
Idle ==
    [pc |-> "idle", route |-> "", userId |-> <<>>, arg |-> <<>>, text |-> <<>>,
     item |-> Null, participants |-> <<>>, conversationId |-> <<>>,
     conversation |-> Null, message |-> Null, list |-> <<>>, results |-> <<>>,
     sets |-> 0]

NoResponse == [status |-> 0]

\* The handler of slot r goes on as q.
Continue(r, q) ==
    /\ req' = [req EXCEPT ![r] = q]
    /\ response' = NoResponse

\* return c.json(body, status): the request q of slot r is answered and the
\* slot is free again.  The response records the request it answers and the
\* number of kv.set calls the request made.
Reply(r, q, status, body) ==
    /\ req' = [req EXCEPT ![r] = Idle]
    /\ response' = [status |-> status, body |-> body, route |-> q.route,
                    userId |-> q.userId, arg |-> q.arg, text |-> q.text,
                    sets |-> q.sets]

(***************************************************************************)
(* The initial store: Item1 owned by UserB and Item3 owned by UserC, each   *)
(* with its index entry, and the profiles written by signup.  UserC's      *)
(* profile is absent (the profile write of signup failed after the         *)
(* account was created).                                                   *)
(***************************************************************************)
ItemRecord(itemId, userId) ==
    [id |-> itemId, userId |-> userId, createdAt |-> ToISOString(T0)]
UserRecord(userId) == [id |-> userId, name |-> userId, email |-> userId \o <<"@">>]

InitialStore ==
    LET s1 == KvSet(<<>>, ItemKey(Item1), ItemRecord(Item1, UserB))
        s2 == KvSet(s1, UserItemKey(UserB, Item1), Item1)
        s3 == KvSet(s2, UserKey(UserA), UserRecord(UserA))
        s4 == KvSet(s3, UserKey(UserB), UserRecord(UserB))
        s5 == KvSet(s4, ItemKey(Item3), ItemRecord(Item3, UserC))
    IN  KvSet(s5, UserItemKey(UserC, Item3), Item3)

\* The signed-in user whose browser shows the item detail dialog, and the
\* Authorization header api.tsx sends with that user's stored token.
DialogUser == UserA
DialogAuthorization == Bearer \o <<" ">> \o TokenOf(DialogUser)

\* No API call of the dialog is waiting on a slot.
NoCall == [kind |-> "none", arg |-> <<>>, text |-> <<>>, conversationId |-> <<>>]

\* The dialog as Dashboard mounts it: closed, with the useState defaults, no
\* interval set and no fetch under way.  An id that is null is the empty
\* string, which the code's tests (!itemId, !conversationId) treat alike.
DialogInit ==
    [itemId |-> <<>>, open |-> FALSE,
     item |-> Null, isLoading |-> FALSE, showChat |-> FALSE,
     conversationId |-> <<>>, messages |-> <<>>,
     timers |-> <<>>, due |-> <<>>,
     pending |-> [r \in Reqs |-> NoCall]]

Init ==
    /\ dialog = DialogInit
    /\ kv = InitialStore
    /\ now = T0
    /\ req = [r \in Reqs |-> Idle]
    /\ response = NoResponse
    /\ used = {}
    /\ sendOrder = <<>>
    /\ served = 0

(***************************************************************************)
(* Identity provider and auth middleware.                                  *)
(***************************************************************************)
RECURSIVE Split(_)
\* header.split(' ')
Split(s) ==
    IF \A i \in 1..Len(s) : s[i] # " " THEN <<s>>
    ELSE LET i == CHOOSE k \in 1..Len(s) : s[k] = " " /\ \A m \in 1..(k - 1) : s[m] # " "
         IN  <<SubSeq(s, 1, i - 1)>> \o Split(SubSeq(s, i + 1, Len(s)))

\* c.req.header('Authorization')?.split(' ')[1]
AccessToken(header) ==
    IF header = Undefined THEN Undefined
    ELSE IF Len(Split(header)) >= 2 THEN Split(header)[2] ELSE Undefined

\* supabase.auth.getUser(accessToken): the user of a live session, or an error.
GetUser(accessToken) ==
    IF \E u \in Users : accessToken = TokenOf(u)
    THEN [error |-> FALSE, id |-> CHOOSE u \in Users : accessToken = TokenOf(u)]
    ELSE [error |-> TRUE, id |-> Undefined]

FirstStep(route) ==
    CASE route = PostConversations -> "conv_item"
      [] route = PostMessages -> "send_get"
      [] route = GetConversations -> "lc_scan"
      [] route = GetMessages -> "lm_get"
      [] route = GetMyItems -> "mi_scan"

\* RequireAuth that only looks for a token and takes the provider's answer
\* without checking it for an error.
RequireAuthTrusting(r, route, header) ==
    /\ req[r].pc = "idle"
    /\ LET accessToken == AccessToken(header)
           q == [Idle EXCEPT !.route = route]
       IN  IF accessToken = Undefined \/ accessToken = <<>>
           THEN Reply(r, q, 401, [error |-> "Unauthorized - No token provided"])
           ELSE Continue(r, [q EXCEPT !.userId = GetUser(accessToken).id,
                                      !.pc = FirstStep(route)])
    /\ UNCHANGED <<kv, now, used, sendOrder>>

\* A request for `route` arrives in the idle slot r and passes through
\* requireAuth: 401 without a token or with one the provider rejects,
\* otherwise the handler starts with the caller's id.
RequireAuth(r, route, header) ==
    /\ req[r].pc = "idle"
    /\ LET accessToken == AccessToken(header)
           q == [Idle EXCEPT !.route = route]
       IN  IF accessToken = Undefined \/ accessToken = <<>>
           THEN Reply(r, q, 401, [error |-> "Unauthorized - No token provided"])
           ELSE IF GetUser(accessToken).error \/ GetUser(accessToken).id = Undefined
           THEN Reply(r, q, 401, [error |-> "Unauthorized - Invalid token"])
           ELSE Continue(r, [q EXCEPT !.userId = GetUser(accessToken).id,
                                      !.pc = FirstStep(route)])
    /\ UNCHANGED <<kv, now, used, sendOrder>>

\* The clock advances by a millisecond.
Tick ==
    /\ now < T0 + MaxTicks
    /\ now' = now + 1
    /\ response' = NoResponse
    /\ UNCHANGED <<kv, req, used, sendOrder, served>>

\* A kv.set issued by slot r as its handler's next step.  Either the write
\* lands (ok) and the handler goes on (or returns `status` with `body`, when
\* this was its last step), or the store throws and the handler's catch
\* block answers 500.
SetStep(r, ok, key, value, nextPc, status, body, failure) ==
    IF ok
    THEN /\ kv' = KvSet(kv, key, value)
         /\ LET q == [req[r] EXCEPT !.sets = @ + 1, !.pc = nextPc]
            IN  IF status = 0 THEN Continue(r, q) ELSE Reply(r, q, status, body)
    ELSE /\ kv' = kv
         /\ Reply(r, req[r], 500, [error |-> failure])

(***************************************************************************)
(* POST /conversations                                                     *)
(***************************************************************************)
\* ConvGetItem without the check that the item exists: reading the owner of
\* a missing item throws, and the catch block answers 500.
ConvGetItemUnchecked(r, itemId) ==
    /\ req[r].pc = "conv_item"
    /\ LET q == [req[r] EXCEPT !.arg = itemId]
           item == KvGet(kv, ItemKey(itemId))
           participants == Participants(q.userId, item.userId)
       IN  IF item = Null
           THEN Reply(r, q, 500, [error |-> "Failed to create conversation"])
           ELSE Continue(r, [q EXCEPT !.item = item,
                                      !.participants = participants,
                                      !.conversationId = ConversationId(participants, itemId),
                                      !.pc = "conv_existing"])
    /\ UNCHANGED <<kv, now, used, sendOrder, served>>

\* ConvGetItem with the conversation id stamped with the time of the call,
\* the way message ids are.
ConvGetItemStamped(r, itemId) ==
    /\ req[r].pc = "conv_item"
    /\ LET q == [req[r] EXCEPT !.arg = itemId]
           item == KvGet(kv, ItemKey(itemId))
           participants == Participants(q.userId, item.userId)
       IN  IF item = Null
           THEN Reply(r, q, 404, [error |-> "Item not found"])
           ELSE Continue(r, [q EXCEPT !.item = item,
                                      !.participants = participants,
                                      !.conversationId =
                                          ConversationId(participants, itemId) \o Dec(now),
                                      !.pc = "conv_existing"])
    /\ UNCHANGED <<kv, now, used, sendOrder, served>>

\* The body { itemId } is read; kv.get(`item:${itemId}`), then the id derivation.
ConvGetItem(r, itemId) ==
    /\ req[r].pc = "conv_item"
    /\ LET q == [req[r] EXCEPT !.arg = itemId]
           item == KvGet(kv, ItemKey(itemId))
           participants == Participants(q.userId, item.userId)
       IN  IF item = Null
           THEN Reply(r, q, 404, [error |-> "Item not found"])
           ELSE Continue(r, [q EXCEPT !.item = item,
                                      !.participants = participants,
                                      !.conversationId = ConversationId(participants, itemId),
                                      !.pc = "conv_existing"])
    /\ UNCHANGED <<kv, now, used, sendOrder, served>>

\* ConvGetExisting with the two readings of the clock exchanged: createdAt
\* takes the later one.
ConvGetExistingSwapped(r) ==
    /\ req[r].pc = "conv_existing"
    /\ LET q == req[r]
           existing == KvGet(kv, ConversationKey(q.conversationId))
       IN  IF existing # Null
           THEN /\ Reply(r, q, 200, [conversation |-> existing])
                /\ now' = now
           ELSE \E d \in 0..1 :
                /\ now + d <= T0 + MaxTicks
                /\ now' = now + d
                /\ Continue(r, [q EXCEPT !.conversation =
                                             [id |-> q.conversationId,
                                              itemId |-> q.arg,
                                              participants |-> q.participants,
                                              createdAt |-> ToISOString(now + d),
                                              lastMessageAt |-> ToISOString(now)],
                                         !.pc = "conv_set"])
    /\ UNCHANGED <<kv, used, sendOrder, served>>

\* ConvGetExisting that touches the record it found: lastMessageAt is set to
\* the time of the call, stored and returned.
ConvGetExistingTouching(r) ==
    /\ req[r].pc = "conv_existing"
    /\ LET q == req[r]
           existing == KvGet(kv, ConversationKey(q.conversationId))
       IN  IF existing # Null
           THEN LET touched == [existing EXCEPT !.lastMessageAt = ToISOString(now)]
                IN  /\ kv' = KvSet(kv, ConversationKey(q.conversationId), touched)
                    /\ Reply(r, [q EXCEPT !.sets = @ + 1], 200, [conversation |-> touched])
                    /\ now' = now
           ELSE \E d \in 0..1 :
                /\ now + d <= T0 + MaxTicks
                /\ now' = now + d
                /\ kv' = kv
                /\ Continue(r, [q EXCEPT !.conversation =
                                             [id |-> q.conversationId,
                                              itemId |-> q.arg,
                                              participants |-> q.participants,
                                              createdAt |-> ToISOString(now),
                                              lastMessageAt |-> ToISOString(now + d)],
                                         !.pc = "conv_set"])
    /\ UNCHANGED <<used, sendOrder, served>>

\* kv.get(`conversation:${conversationId}`); an existing record is returned
\* as is, otherwise the new record is built from two readings of the clock.
ConvGetExisting(r) ==
    /\ req[r].pc = "conv_existing"
    /\ LET q == req[r]
           existing == KvGet(kv, ConversationKey(q.conversationId))
       IN  IF existing # Null
           THEN /\ Reply(r, q, 200, [conversation |-> existing])
                /\ now' = now
           ELSE \E d \in 0..1 :
                /\ now + d <= T0 + MaxTicks
                /\ now' = now + d
                /\ Continue(r, [q EXCEPT !.conversation =
                                             [id |-> q.conversationId,
                                              itemId |-> q.arg,
                                              participants |-> q.participants,
                                              createdAt |-> ToISOString(now),
                                              lastMessageAt |-> ToISOString(now + d)],
                                         !.pc = "conv_set"])
    /\ UNCHANGED <<kv, used, sendOrder, served>>

\* ConvSetConversation that writes the caller's index entry first, in place
\* of the conversation record.
ConvSetConversationIndexFirst(r, ok) ==
    /\ req[r].pc = "conv_set"
    /\ SetStep(r, ok, UserConversationKey(req[r].userId, req[r].conversationId),
               req[r].conversationId,
               "conv_index_caller", 0, Null, "Failed to create conversation")
    /\ UNCHANGED <<now, used, sendOrder, served>>

\* kv.set(`conversation:${conversationId}`, conversation)
ConvSetConversation(r, ok) ==
    /\ req[r].pc = "conv_set"
    /\ SetStep(r, ok, ConversationKey(req[r].conversationId), req[r].conversation,
               "conv_index_caller", 0, Null, "Failed to create conversation")
    /\ UNCHANGED <<now, used, sendOrder, served>>

\* kv.set(`userConversation:${userId}:${conversationId}`, conversationId)
ConvSetIndexCaller(r, ok) ==
    /\ req[r].pc = "conv_index_caller"
    /\ SetStep(r, ok, UserConversationKey(req[r].userId, req[r].conversationId),
               req[r].conversationId,
               "conv_index_owner", 0, Null, "Failed to create conversation")
    /\ UNCHANGED <<now, used, sendOrder, served>>

\* kv.set(`userConversation:${item.userId}:${conversationId}`, conversationId)
\* and the response.
ConvSetIndexOwner(r, ok) ==
    /\ req[r].pc = "conv_index_owner"
    /\ SetStep(r, ok, UserConversationKey(req[r].item.userId, req[r].conversationId),
               req[r].conversationId,
               "done", 200, [conversation |-> req[r].conversation],
               "Failed to create conversation")
    /\ UNCHANGED <<now, used, sendOrder, served>>

(***************************************************************************)
(* POST /messages                                                          *)
(***************************************************************************)
\* SendGetConversation without the participants check.
SendGetConversationUnchecked(r, conversationId, text) ==
    /\ req[r].pc = "send_get"
    /\ LET q == [req[r] EXCEPT !.arg = conversationId, !.text = text]
           conversation == KvGet(kv, ConversationKey(conversationId))
       IN  IF conversation = Null
           THEN /\ Reply(r, q, 404, [error |-> "Conversation not found"])
                /\ UNCHANGED <<now, used, sendOrder>>
           ELSE \E uuid \in UUIDs \ used, d \in 0..1 :
                /\ now + d <= T0 + MaxTicks
                /\ now' = now + d
                /\ used' = used \cup {uuid}
                /\ sendOrder' = Append(sendOrder, MessageId(conversationId, now, uuid))
                /\ Continue(r, [q EXCEPT !.conversation = conversation,
                                         !.message =
                                             [id |-> MessageId(conversationId, now, uuid),
                                              conversationId |-> conversationId,
                                              senderId |-> q.userId,
                                              text |-> text,
                                              createdAt |-> ToISOString(now + d)],
                                         !.pc = "send_set_message"])
    /\ UNCHANGED <<kv, served>>

\* The body { conversationId, text } is read;
\* kv.get(`conversation:${conversationId}`), the two checks, and the
\* message built from Date.now(), crypto.randomUUID() and new Date().
SendGetConversation(r, conversationId, text) ==
    /\ req[r].pc = "send_get"
    /\ LET q == [req[r] EXCEPT !.arg = conversationId, !.text = text]
           conversation == KvGet(kv, ConversationKey(conversationId))
       IN  IF conversation = Null
           THEN /\ Reply(r, q, 404, [error |-> "Conversation not found"])
                /\ UNCHANGED <<now, used, sendOrder>>
           ELSE IF ~Includes(conversation.participants, q.userId)
           THEN /\ Reply(r, q, 403, [error |-> "Unauthorized - Not a participant"])
                /\ UNCHANGED <<now, used, sendOrder>>
           ELSE \E uuid \in UUIDs \ used, d \in 0..1 :
                /\ now + d <= T0 + MaxTicks
                /\ now' = now + d
                /\ used' = used \cup {uuid}
                /\ sendOrder' = Append(sendOrder, MessageId(conversationId, now, uuid))
                /\ Continue(r, [q EXCEPT !.conversation = conversation,
                                         !.message =
                                             [id |-> MessageId(conversationId, now, uuid),
                                              conversationId |-> conversationId,
                                              senderId |-> q.userId,
                                              text |-> text,
                                              createdAt |-> ToISOString(now + d)],
                                         !.pc = "send_set_message"])
    /\ UNCHANGED <<kv, served>>

\* kv.set(`message:${messageId}`, message)
SendSetMessage(r, ok) ==
    /\ req[r].pc = "send_set_message"
    /\ SetStep(r, ok, MessageKey(req[r].message.id), req[r].message,
               "send_set_conversation", 0, Null, "Failed to send message")
    /\ UNCHANGED <<now, used, sendOrder, served>>

\* kv.set(`conversation:${conversationId}`, {...conversation, lastMessageAt})
\* and the response.
SendSetConversation(r, ok) ==
    /\ req[r].pc = "send_set_conversation"
    /\ SetStep(r, ok, ConversationKey(req[r].arg),
               [req[r].conversation EXCEPT !.lastMessageAt = req[r].message.createdAt],
               "done", 200, [message |-> req[r].message], "Failed to send message")
    /\ UNCHANGED <<now, used, sendOrder, served>>

(***************************************************************************)
(* GET /messages/:conversationId                                           *)
(***************************************************************************)
Unknown == <<"U", "n", "k", "n", "o", "w", "n">>

\* .sort((a, b) => new Date(a.createdAt).getTime() - new Date(b.createdAt).getTime())
ByCreatedAtAscending(s) ==
    Values(Sort([i \in 1..Len(s) |-> [key |-> GetTime(s[i].createdAt), value |-> s[i]]]))

\* user?.name || 'Unknown'
SenderName(user) == IF user = Null \/ user.name = <<>> THEN Unknown ELSE user.name

\* ListMessagesGetConversation without the participants check.
ListMessagesGetConversationUnchecked(r, conversationId) ==
    /\ req[r].pc = "lm_get"
    /\ LET q == [req[r] EXCEPT !.arg = conversationId]
           conversation == KvGet(kv, ConversationKey(conversationId))
       IN  IF conversation = Null
           THEN Reply(r, q, 404, [error |-> "Conversation not found"])
           ELSE Continue(r, [q EXCEPT !.conversation = conversation, !.pc = "lm_scan"])
    /\ UNCHANGED <<kv, now, used, sendOrder, served>>

\* kv.get(`conversation:${conversationId}`) and the two checks.
ListMessagesGetConversation(r, conversationId) ==
    /\ req[r].pc = "lm_get"
    /\ LET q == [req[r] EXCEPT !.arg = conversationId]
           conversation == KvGet(kv, ConversationKey(conversationId))
       IN  IF conversation = Null
           THEN Reply(r, q, 404, [error |-> "Conversation not found"])
           ELSE IF ~Includes(conversation.participants, q.userId)
           THEN Reply(r, q, 403, [error |-> "Unauthorized - Not a participant"])
           ELSE Continue(r, [q EXCEPT !.conversation = conversation, !.pc = "lm_scan"])
    /\ UNCHANGED <<kv, now, used, sendOrder, served>>

\* kv.getByPrefix(`message:${conversationId}:`) and the sort by createdAt.
ListMessagesScan(r) ==
    /\ req[r].pc = "lm_scan"
    /\ \E allMessages \in KvGetByPrefix(kv, MessagePrefix(req[r].arg)) :
          Continue(r, [req[r] EXCEPT !.list = ByCreatedAtAscending(allMessages),
                                     !.pc = "lm_join"])
    /\ UNCHANGED <<kv, now, used, sendOrder, served>>

\* The sender names are joined in and the list is returned.
ListMessagesJoin(r) ==
    /\ req[r].pc = "lm_join"
    /\ LET q == req[r]
           messagesWithNames ==
               [i \in 1..Len(q.list) |->
                   [id |-> q.list[i].id,
                    conversationId |-> q.list[i].conversationId,
                    senderId |-> q.list[i].senderId,
                    text |-> q.list[i].text,
                    createdAt |-> q.list[i].createdAt,
                    senderName |-> SenderName(KvGet(kv, UserKey(q.list[i].senderId)))]]
       IN  Reply(r, q, 200, [messages |-> messagesWithNames])
    /\ UNCHANGED <<kv, now, used, sendOrder, served>>

(***************************************************************************)
(* GET /conversations                                                      *)
(***************************************************************************)
\* The sort of ByLastMessageAtDescending with the comparator's operands
\* exchanged: oldest activity first.
ByLastMessageAtAscending(s) ==
    Values(Sort([i \in 1..Len(s) |-> [key |-> GetTime(s[i].lastMessageAt), value |-> s[i]]]))

\* .sort((a, b) =>
\*     new Date(b.lastMessageAt).getTime() - new Date(a.lastMessageAt).getTime())
ByLastMessageAtDescending(s) ==
    Values(Sort([i \in 1..Len(s) |-> [key |-> 0 - GetTime(s[i].lastMessageAt), value |-> s[i]]]))

\* kv.getByPrefix(`userConversation:${userId}:`)
ListConversationsScan(r) ==
    /\ req[r].pc = "lc_scan"
    /\ \E conversationIds \in KvGetByPrefix(kv, UserConversationPrefix(req[r].userId)) :
          Continue(r, [req[r] EXCEPT !.list = conversationIds, !.pc = "lc_resolve"])
    /\ UNCHANGED <<kv, now, used, sendOrder, served>>

\* conv.participants.find((id) => id !== userId)
OtherUserId(participants, userId) ==
    IF \E i \in 1..Len(participants) : participants[i] # userId
    THEN participants[CHOOSE i \in 1..Len(participants) :
                          /\ participants[i] # userId
                          /\ \A j \in 1..(i - 1) : participants[j] = userId]
    ELSE Undefined

\* One element of the Promise.all: the conversation, its item and the other
\* participant are fetched; an index entry without a record yields null.
ListConversationsResolve(r) ==
    /\ req[r].pc = "lc_resolve"
    /\ req[r].list # <<>>
    /\ LET q == req[r]
           conv == KvGet(kv, ConversationKey(Head(q.list)))
           entry ==
               IF conv = Null THEN Null
               ELSE [id |-> conv.id,
                     itemId |-> conv.itemId,
                     participants |-> conv.participants,
                     createdAt |-> conv.createdAt,
                     lastMessageAt |-> conv.lastMessageAt,
                     item |-> KvGet(kv, ItemKey(conv.itemId)),
                     otherUser |-> KvGet(kv, UserKey(OtherUserId(conv.participants, q.userId)))]
       IN  Continue(r, [q EXCEPT !.list = Tail(q.list), !.results = Append(q.results, entry)])
    /\ UNCHANGED <<kv, now, used, sendOrder, served>>

\* conversations.filter(c => c !== null), the sort by lastMessageAt, the response.
ListConversationsRespond(r) ==
    /\ req[r].pc = "lc_resolve"
    /\ req[r].list = <<>>
    /\ LET validConversations == SelectSeq(req[r].results, LAMBDA c : c # Null)
       IN  Reply(r, req[r], 200,
                 [conversations |-> ByLastMessageAtDescending(validConversations)])
    /\ UNCHANGED <<kv, now, used, sendOrder, served>>

(***************************************************************************)
(* GET /my-items                                                           *)
(***************************************************************************)
\* .sort((a, b) => dateB - dateA), each date the getTime() of createdAt, or 0
ByCreatedAtDescending(s) ==
    Values(Sort([i \in 1..Len(s) |-> [key |-> 0 - GetTime(s[i].createdAt), value |-> s[i]]]))

\* kv.getByPrefix(`userItem:${userId}:`)
MyItemsScan(r) ==
    /\ req[r].pc = "mi_scan"
    /\ \E userItemIds \in KvGetByPrefix(kv, UserItemPrefix(req[r].userId)) :
          Continue(r, [req[r] EXCEPT !.list = userItemIds, !.pc = "mi_resolve"])
    /\ UNCHANGED <<kv, now, used, sendOrder, served>>

\* The items are fetched, the missing ones dropped, the rest sorted and returned.
MyItemsRespond(r) ==
    /\ req[r].pc = "mi_resolve"
    /\ LET q == req[r]
           items == [i \in 1..Len(q.list) |-> KvGet(kv, ItemKey(q.list[i]))]
           validItems == SelectSeq(items, LAMBDA item : item # Null)
       IN  Reply(r, q, 200, [items |-> ByCreatedAtDescending(validItems)])
    /\ UNCHANGED <<kv, now, used, sendOrder, served>>

(***************************************************************************)
(* GET /items/:id, which is not behind requireAuth.                        *)
(***************************************************************************)
GetItem == "GET /items/:id"

\* user?.email || ''
UserEmail(user) == IF user = Null THEN <<>> ELSE user.email

\* A request for GET /items/:id arrives in the idle slot r.
GetItemRequest(r) ==
    /\ req[r].pc = "idle"
    /\ Continue(r, [Idle EXCEPT !.route = GetItem, !.pc = "gi_item"])
    /\ UNCHANGED <<kv, now, used, sendOrder>>

\* kv.get(`item:${itemId}`) and the check.
GetItemGetItem(r, itemId) ==
    /\ req[r].pc = "gi_item"
    /\ LET q == [req[r] EXCEPT !.arg = itemId]
           item == KvGet(kv, ItemKey(itemId))
       IN  IF item = Null
           THEN Reply(r, q, 404, [error |-> "Item not found"])
           ELSE Continue(r, [q EXCEPT !.item = item, !.pc = "gi_user"])
    /\ UNCHANGED <<kv, now, used, sendOrder, served>>

\* kv.get(`user:${item.userId}`) and the response with the owner joined in.
GetItemGetUser(r) ==
    /\ req[r].pc = "gi_user"
    /\ LET q == req[r]
           user == KvGet(kv, UserKey(q.item.userId))
       IN  Reply(r, q, 200,
                 [item |-> [id |-> q.item.id,
                            userId |-> q.item.userId,
                            createdAt |-> q.item.createdAt,
                            userName |-> SenderName(user),
                            userEmail |-> UserEmail(user)]])
    /\ UNCHANGED <<kv, now, used, sendOrder, served>>

(***************************************************************************)
(* The client: ItemDetailDialog, which Dashboard mounts once and opens and *)
(* closes through its props.  A call of api.tsx arrives at the server in   *)
(* an idle slot; the step of the server that answers it runs the rest of   *)
(* the calling function, the renders it causes and their effects.          *)
(***************************************************************************)
PlainText == <<"h">>

\* The items the user can click in the list.
DialogItems == {Item1, Item3}

\* The conversation the other party writes to: the one DialogUser starts on
\* Item1, with the owner of Item1.
OtherUser == UserB
OtherConversation == ConversationId(Participants(DialogUser, OtherUser), Item1)

\* response.ok
Ok(resp) == resp.status >= 200 /\ resp.status < 300

\* A request arrives in the lowest idle slot.
Arrives(r) == \A r2 \in 1..(r - 1) : req[r2].pc # "idle"

\* A further message can be sent: fewer than MaxSends have been, counting
\* the sends that have not drawn their UUID yet, and the pool has one left.
CanSend ==
    LET sends == Cardinality(used) + Cardinality({r \in Reqs : req[r].pc = "send_get"})
    IN  sends < MaxSends /\ sends < MaxMsgs

\* loadMessages() as the closure that holds conversationId: nothing without
\* a conversation id, otherwise a fetch of its messages is due.
CallLoadMessages(d, conversationId) ==
    IF conversationId = <<>> THEN d ELSE [d EXCEPT !.due = Append(@, conversationId)]

\* The polling effect whose cleanup leaves the interval of the previous run
\* alive.
PollingEffectNoCleanup(before, after) ==
    IF after.showChat = before.showChat /\ after.conversationId = before.conversationId
    THEN after
    ELSE IF after.showChat /\ after.conversationId # <<>>
         THEN [CallLoadMessages(after, after.conversationId)
                   EXCEPT !.timers = Append(after.timers, after.conversationId)]
         ELSE after

\* useEffect(..., [showChat, conversationId]) after a render that takes the
\* state from `before` to `after`: when a dependency changed, the cleanup of
\* the previous run clears the interval that run set, and with the chat
\* shown on a conversation loadMessages is called and a new interval is set.
PollingEffect(before, after) ==
    IF after.showChat = before.showChat /\ after.conversationId = before.conversationId
    THEN after
    ELSE LET cleared == IF before.showChat /\ before.conversationId # <<>>
                        THEN Tail(after.timers) ELSE after.timers
         IN  IF after.showChat /\ after.conversationId # <<>>
             THEN [CallLoadMessages(after, after.conversationId)
                       EXCEPT !.timers = Append(cleared, after.conversationId)]
             ELSE [after EXCEPT !.timers = cleared]

\* The rest of the call that waits on slot r, run on its response.
OnResponse(d, r, resp) ==
    LET call == d.pending[r]
        done == [d EXCEPT !.pending[r] = NoCall]
    IN  CASE call.kind = "loadItem" ->
                 [done EXCEPT !.item = IF Ok(resp) THEN resp.body.item ELSE @,
                              !.isLoading = FALSE]
          [] call.kind = "handleStartChat" ->
                 IF Ok(resp)
                 THEN PollingEffect(done,
                          CallLoadMessages(
                              [done EXCEPT !.conversationId = resp.body.conversation.id,
                                           !.showChat = TRUE],
                              call.conversationId))
                 ELSE done
          [] call.kind = "loadMessages" ->
                 [done EXCEPT !.messages = IF Ok(resp) THEN resp.body.messages ELSE @]
          [] call.kind = "handleSendMessage" ->
                 IF Ok(resp) THEN CallLoadMessages(done, call.conversationId) ELSE done
          [] OTHER -> d

\* The step of slot r just taken reaches the dialog if it answered.
Deliver(r) ==
    dialog' = IF response'.status = 0 THEN dialog ELSE OnResponse(dialog, r, response')

\* Dashboard.handleItemClick(itemId): the dialog opens on the item, and the
\* effect on [itemId, open] calls loadItem.
HandleItemClick(r, itemId) ==
    /\ ~dialog.open
    /\ Arrives(r)
    /\ GetItemRequest(r)
    /\ dialog' = [dialog EXCEPT !.itemId = itemId, !.open = TRUE, !.isLoading = TRUE,
                                !.pending[r] = [NoCall EXCEPT !.kind = "loadItem",
                                                              !.arg = itemId]]

\* onClose: Dashboard closes the dialog and forgets the selected item; the
\* dialog stays mounted with its state.
OnClose ==
    /\ dialog.open
    /\ dialog' = [dialog EXCEPT !.open = FALSE, !.itemId = <<>>]
    /\ response' = NoResponse
    /\ UNCHANGED <<kv, now, req, used, sendOrder, served>>

\* The dialog renders the loaded item.
ItemShown == dialog.open /\ ~dialog.isLoading /\ dialog.item # Null

\* "Contact Owner" is clicked: createConversation(itemId).
HandleStartChat(r) ==
    /\ ItemShown
    /\ dialog.item.userId # DialogUser
    /\ ~dialog.showChat
    /\ dialog.itemId # <<>>
    /\ Arrives(r)
    /\ RequireAuth(r, PostConversations, DialogAuthorization)
    /\ dialog' = [dialog EXCEPT !.pending[r] =
                                    [NoCall EXCEPT !.kind = "handleStartChat",
                                                   !.arg = dialog.itemId,
                                                   !.conversationId = dialog.conversationId]]

\* The form of the chat panel is submitted: sendMessage(conversationId, newMessage).
HandleSendMessage(r, text) ==
    /\ ItemShown
    /\ dialog.showChat
    /\ dialog.conversationId # <<>>
    /\ Trim(text) # <<>>
    /\ CanSend
    /\ Arrives(r)
    /\ RequireAuth(r, PostMessages, DialogAuthorization)
    /\ dialog' = [dialog EXCEPT !.pending[r] =
                                    [NoCall EXCEPT !.kind = "handleSendMessage",
                                                   !.conversationId = dialog.conversationId,
                                                   !.text = text]]

\* The fetch of a loadMessages call that is due goes out.
LoadMessages(r) ==
    /\ dialog.due # <<>>
    /\ Arrives(r)
    /\ RequireAuth(r, GetMessages, DialogAuthorization)
    /\ dialog' = [dialog EXCEPT !.due = Tail(@),
                                !.pending[r] = [NoCall EXCEPT !.kind = "loadMessages",
                                                              !.conversationId = Head(dialog.due)]]

\* An interval fires: loadMessages of the render that set it.
IntervalFires(r) ==
    /\ \E i \in 1..Len(dialog.timers) :
          dialog' = [dialog EXCEPT !.pending[r] =
                                       [NoCall EXCEPT !.kind = "loadMessages",
                                                      !.conversationId = dialog.timers[i]]]
    /\ Arrives(r)
    /\ RequireAuth(r, GetMessages, DialogAuthorization)

\* The other party sends a message to its conversation with DialogUser,
\* from its own client.
OtherSends(r) ==
    /\ ConversationKey(OtherConversation) \in DOMAIN kv
    /\ CanSend
    /\ Arrives(r)
    /\ RequireAuth(r, PostMessages, Bearer \o <<" ">> \o TokenOf(OtherUser))
    /\ UNCHANGED dialog

\* The server takes the next step of the request in slot r.
Serves(r) ==
    \/ GetItemGetItem(r, dialog.pending[r].arg) /\ Deliver(r)
    \/ GetItemGetUser(r) /\ Deliver(r)
    \/ ConvGetItem(r, dialog.pending[r].arg) /\ Deliver(r)
    \/ ConvGetExisting(r) /\ Deliver(r)
    \/ ConvSetConversation(r, TRUE) /\ Deliver(r)
    \/ ConvSetIndexCaller(r, TRUE) /\ Deliver(r)
    \/ ConvSetIndexOwner(r, TRUE) /\ Deliver(r)
    \/ /\ dialog.pending[r].kind = "handleSendMessage"
       /\ SendGetConversation(r, dialog.pending[r].conversationId, dialog.pending[r].text)
       /\ Deliver(r)
    \/ /\ dialog.pending[r].kind = "none"
       /\ SendGetConversation(r, OtherConversation, PlainText)
       /\ Deliver(r)
    \/ SendSetMessage(r, TRUE) /\ Deliver(r)
    \/ SendSetConversation(r, TRUE) /\ Deliver(r)
    \/ ListMessagesGetConversation(r, dialog.pending[r].conversationId) /\ Deliver(r)
    \/ ListMessagesScan(r) /\ Deliver(r)
    \/ ListMessagesJoin(r) /\ Deliver(r)

(***************************************************************************)
(* Specifications.                                                         *)
(*                                                                         *)
(* Spec serves the requests one at a time, in slot 1: every route, every   *)
(* header, every body, a store that may throw on any write; MaxRequests    *)
(* requests arrive.                                                        *)
(*                                                                         *)
(* SpecOverlapping serves the requests in all the slots, their handlers    *)
(* interleaving at every await.  It is restricted to the two routes that   *)
(* write (POST /conversations, POST /messages), to requests with a valid   *)
(* session, to Item1 and to one message text.                              *)
(*                                                                         *)
(* SpecReads serves the requests one at a time: MaxRequests requests of    *)
(* any route and then MaxGets GET requests, all with a valid session, on   *)
(* Item1, with one message text and a store that does not throw.           *)
(*                                                                         *)
(* SpecDialog runs the item detail dialog of DialogUser against the        *)
(* server, in all the slots, with a store that does not throw: the user    *)
(* opens the dialog on Item1 or Item3, closes it, starts a chat and sends  *)
(* a message, and the other party sends messages to its conversation with  *)
(* DialogUser; these make MaxCalls requests, MaxSends of them messages,    *)
(* and the polls of the dialog are not counted.  The clock stands at its   *)
(* bound.  The server runs every handler to its answer, a fetch that is   *)
(* due goes out and a live interval keeps firing: weak fairness on the     *)
(* steps of each slot, on LoadMessages and on IntervalFires.               *)
(***************************************************************************)
Next ==
    \/ \E route \in Routes, header \in Headers :
          /\ served < MaxRequests
          /\ served' = served + 1
          /\ RequireAuth(1, route, header)
          /\ UNCHANGED dialog
    \/ Tick /\ UNCHANGED dialog
    \/ \E r \in Reqs, itemId \in ItemIds : ConvGetItem(r, itemId) /\ UNCHANGED dialog
    \/ \E r \in Reqs : ConvGetExisting(r) /\ UNCHANGED dialog
    \/ \E r \in Reqs, ok \in BOOLEAN : ConvSetConversation(r, ok) /\ UNCHANGED dialog
    \/ \E r \in Reqs, ok \in BOOLEAN : ConvSetIndexCaller(r, ok) /\ UNCHANGED dialog
    \/ \E r \in Reqs, ok \in BOOLEAN : ConvSetIndexOwner(r, ok) /\ UNCHANGED dialog
    \/ \E r \in Reqs, conversationId \in ConversationIds, text \in Texts :
          SendGetConversation(r, conversationId, text)
            /\ UNCHANGED dialog
    \/ \E r \in Reqs, ok \in BOOLEAN : SendSetMessage(r, ok) /\ UNCHANGED dialog
    \/ \E r \in Reqs, ok \in BOOLEAN : SendSetConversation(r, ok) /\ UNCHANGED dialog
    \/ \E r \in Reqs, conversationId \in ConversationIds :
          ListMessagesGetConversation(r, conversationId)
            /\ UNCHANGED dialog
    \/ \E r \in Reqs : ListMessagesScan(r) /\ UNCHANGED dialog
    \/ \E r \in Reqs : ListMessagesJoin(r) /\ UNCHANGED dialog
    \/ \E r \in Reqs : ListConversationsScan(r) /\ UNCHANGED dialog
    \/ \E r \in Reqs : ListConversationsResolve(r) /\ UNCHANGED dialog
    \/ \E r \in Reqs : ListConversationsRespond(r) /\ UNCHANGED dialog
    \/ \E r \in Reqs : MyItemsScan(r) /\ UNCHANGED dialog
    \/ \E r \in Reqs : MyItemsRespond(r) /\ UNCHANGED dialog

Spec == Init /\ [][Next]_vars

ValidHeaders == {Bearer \o <<" ">> \o TokenOf(u) : u \in Users}

NextOverlapping ==
    \/ \E r \in Reqs, route \in PostRoutes, header \in ValidHeaders :
          /\ served < MaxRequests
          /\ served' = served + 1
          /\ \A r2 \in 1..(r - 1) : req[r2].pc # "idle"
          /\ RequireAuth(r, route, header)
          /\ UNCHANGED dialog
    \/ Tick /\ UNCHANGED dialog
    \/ \E r \in Reqs : ConvGetItem(r, Item1) /\ UNCHANGED dialog
    \/ \E r \in Reqs : ConvGetExisting(r) /\ UNCHANGED dialog
    \/ \E r \in Reqs, ok \in BOOLEAN : ConvSetConversation(r, ok) /\ UNCHANGED dialog
    \/ \E r \in Reqs, ok \in BOOLEAN : ConvSetIndexCaller(r, ok) /\ UNCHANGED dialog
    \/ \E r \in Reqs, ok \in BOOLEAN : ConvSetIndexOwner(r, ok) /\ UNCHANGED dialog
    \/ \E r \in Reqs, conversationId \in ConversationIds :
          SendGetConversation(r, conversationId, PlainText)
            /\ UNCHANGED dialog
    \/ \E r \in Reqs, ok \in BOOLEAN : SendSetMessage(r, ok) /\ UNCHANGED dialog
    \/ \E r \in Reqs, ok \in BOOLEAN : SendSetConversation(r, ok) /\ UNCHANGED dialog

SpecOverlapping == Init /\ [][NextOverlapping]_vars

NextReads ==
    \/ \E route \in Routes, header \in ValidHeaders :
          /\ served < MaxRequests + MaxGets
          /\ route \in PostRoutes => served < MaxRequests
          /\ served' = served + 1
          /\ RequireAuth(1, route, header)
          /\ UNCHANGED dialog
    \/ /\ served < MaxRequests + MaxGets
       /\ served' = served + 1
       /\ GetItemRequest(1)
       /\ UNCHANGED dialog
    \/ \E r \in Reqs, itemId \in {Item1, Item2, Item3} : GetItemGetItem(r, itemId) /\ UNCHANGED dialog
    \/ \E r \in Reqs : GetItemGetUser(r) /\ UNCHANGED dialog
    \/ Tick /\ UNCHANGED dialog
    \/ \E r \in Reqs : ConvGetItem(r, Item1) /\ UNCHANGED dialog
    \/ \E r \in Reqs : ConvGetExisting(r) /\ UNCHANGED dialog
    \/ \E r \in Reqs : ConvSetConversation(r, TRUE) /\ UNCHANGED dialog
    \/ \E r \in Reqs : ConvSetIndexCaller(r, TRUE) /\ UNCHANGED dialog
    \/ \E r \in Reqs : ConvSetIndexOwner(r, TRUE) /\ UNCHANGED dialog
    \/ \E r \in Reqs, conversationId \in ConversationIds :
          SendGetConversation(r, conversationId, PlainText)
            /\ UNCHANGED dialog
    \/ \E r \in Reqs : SendSetMessage(r, TRUE) /\ UNCHANGED dialog
    \/ \E r \in Reqs : SendSetConversation(r, TRUE) /\ UNCHANGED dialog
    \/ \E r \in Reqs, conversationId \in ConversationIds :
          ListMessagesGetConversation(r, conversationId)
            /\ UNCHANGED dialog
    \/ \E r \in Reqs : ListMessagesScan(r) /\ UNCHANGED dialog
    \/ \E r \in Reqs : ListMessagesJoin(r) /\ UNCHANGED dialog
    \/ \E r \in Reqs : ListConversationsScan(r) /\ UNCHANGED dialog
    \/ \E r \in Reqs : ListConversationsResolve(r) /\ UNCHANGED dialog
    \/ \E r \in Reqs : ListConversationsRespond(r) /\ UNCHANGED dialog
    \/ \E r \in Reqs : MyItemsScan(r) /\ UNCHANGED dialog
    \/ \E r \in Reqs : MyItemsRespond(r) /\ UNCHANGED dialog

SpecReads == Init /\ [][NextReads]_vars

NextDialog ==
    \/ \E r \in Reqs, itemId \in DialogItems :
          /\ served < MaxCalls
          /\ served' = served + 1
          /\ HandleItemClick(r, itemId)
    \/ OnClose
    \/ \E r \in Reqs :
          /\ served < MaxCalls
          /\ served' = served + 1
          /\ HandleStartChat(r)
    \/ \E r \in Reqs :
          /\ served < MaxCalls
          /\ served' = served + 1
          /\ HandleSendMessage(r, PlainText)
    \/ \E r \in Reqs :
          /\ served < MaxCalls
          /\ served' = served + 1
          /\ OtherSends(r)
    \/ \E r \in Reqs : LoadMessages(r) /\ UNCHANGED served
    \/ \E r \in Reqs : IntervalFires(r) /\ UNCHANGED served
    \/ \E r \in Reqs : Serves(r)

\* Init with the clock at its bound: no time passes while the dialog is
\* studied.
InitDialog ==
    /\ dialog = DialogInit
    /\ kv = InitialStore
    /\ now = T0 + MaxTicks
    /\ req = [r \in Reqs |-> Idle]
    /\ response = NoResponse
    /\ used = {}
    /\ sendOrder = <<>>
    /\ served = 0

SpecDialog ==
    /\ InitDialog
    /\ [][NextDialog]_vars
    /\ \A r \in Reqs : WF_vars(Serves(r))
    /\ WF_vars(\E r \in Reqs : LoadMessages(r) /\ UNCHANGED served)
    /\ WF_vars(\E r \in Reqs : IntervalFires(r) /\ UNCHANGED served)

(***************************************************************************)
(* Properties.                                                             *)
(***************************************************************************)
ConversationKeys == {k \in DOMAIN kv : IsConversationKey(k)}
MessageKeys == {k \in DOMAIN kv : IsMessageKey(k)}

Members(seq) == {seq[i] : i \in 1..Len(seq)}

\* The stored conversation records between user u and the owner of the
\* stored item itemId, about that item.
RecordsFor(u, itemId) ==
    {k \in ConversationKeys :
        /\ kv[k].itemId = itemId
        /\ Members(kv[k].participants) = {u, kv[ItemKey(itemId)].userId}}

\* The last step answered a request of `route` that had passed requireAuth.
Answered(route) ==
    /\ response.status # 0
    /\ response.status # 401
    /\ response.route = route

\* C1: startConversation(A, I) called twice in sequence returns the same
\* conversation id both times, and exactly one conversation record for
\* (A, owner of I, I) exists afterwards.  Every successful call returns the
\* id of the one record stored for its (caller, owner, item), and a stored
\* record keeps its key and id for ever; so two calls return the same id.
C1_StartConversationIdempotent ==
    /\ [](Answered(PostConversations) /\ response.status = 200
            => /\ Cardinality(RecordsFor(response.userId, response.arg)) = 1
               /\ \A k \in RecordsFor(response.userId, response.arg) :
                     /\ kv[k].id = response.body.conversation.id
                     /\ k = ConversationKey(kv[k].id))
    /\ [][\A k \in ConversationKeys : k \in DOMAIN kv' /\ kv'[k].id = kv[k].id]_vars

\* C1 witness: a second call found the record the first had stored and
\* returned it without writing.
C1_Witness ==
    /\ Answered(PostConversations)
    /\ response.status = 200
    /\ response.sets = 0
    /\ response.userId # kv[ItemKey(response.arg)].userId

Position(seq, x) == CHOOSE i \in 1..Len(seq) : seq[i] = x

\* C2: listMessages returns the messages of a conversation in exactly the
\* order in which they were sent, also when their timestamps are equal.
C2_ListMessagesInSendOrder ==
    Answered(GetMessages) /\ response.status = 200
        => \A i, j \in 1..Len(response.body.messages) :
              i < j => Position(sendOrder, response.body.messages[i].id)
                          < Position(sendOrder, response.body.messages[j].id)

\* C3: a send on an existing conversation by an authenticated caller who is
\* not one of its participants is answered 403, and the step that answers
\* leaves the store as it was; the request has made no write.
C3_NonParticipantSendForbidden ==
    [][(/\ response'.status # 0
        /\ response'.status # 401
        /\ response'.route = PostMessages
        /\ ConversationKey(response'.arg) \in DOMAIN kv
        /\ ~Includes(kv[ConversationKey(response'.arg)].participants, response'.userId))
          => /\ response'.status = 403
             /\ response'.sets = 0
             /\ kv' = kv]_vars

\* C3 witness: a non-participant's send on an existing conversation was answered.
C3_Witness ==
    /\ Answered(PostMessages)
    /\ ConversationKey(response.arg) \in DOMAIN kv
    /\ ~Includes(kv[ConversationKey(response.arg)].participants, response.userId)

\* C4: a send by a participant whose text is empty or only whitespace is
\* answered 400 and writes nothing (a store failure, answered 500, aside).
C4_BlankTextRejected ==
    (/\ Answered(PostMessages)
     /\ response.status # 500
     /\ ConversationKey(response.arg) \in DOMAIN kv
     /\ Includes(kv[ConversationKey(response.arg)].participants, response.userId)
     /\ Trim(response.text) = <<>>)
        => /\ response.status = 400
           /\ response.sets = 0

\* C5: the lastMessageAt of a conversation never decreases from one state
\* to the next, whatever sends race on it: no send's write of the
\* conversation record moves it backward.
C5_LastMessageAtMonotonic ==
    [][\A r \in Reqs, ok \in BOOLEAN :
          SendSetConversation(r, ok)
              => \A k \in ConversationKeys :
                    GetTime(kv[k].lastMessageAt) <= GetTime(kv'[k].lastMessageAt)]_vars

\* C6: a request to a Guard-protected endpoint without a bearer credential,
\* or with one the identity provider rejects, is answered 401 and no handler
\* runs for it: the step leaves the store and the slot as they were; and no
\* request answered 401 has made a write.
C6_UnauthenticatedShortCircuits ==
    [][/\ \A r \in Reqs, route \in Routes, header \in Headers \ ValidHeaders :
            RequireAuth(r, route, header)
                => /\ response'.status = 401
                   /\ response'.route = route
                   /\ kv' = kv
                   /\ req' = req
       /\ response'.status = 401 => kv' = kv /\ response'.sets = 0]_vars

\* C6 witness: a request was answered 401.
C6_Witness == response.status = 401

ConvDerived == {"conv_existing", "conv_set", "conv_index_caller", "conv_index_owner"}

\* C7: the conversation id is order-independent in the two user ids: the id
\* a request derived from (caller, item owner) is the id derived from
\* (item owner, caller).
C7_ConversationIdSymmetric ==
    \A r \in Reqs :
        req[r].pc \in ConvDerived
            => req[r].conversationId =
                   ConversationId(Participants(req[r].item.userId, req[r].userId), req[r].arg)

\* C7 witness: an id was derived for a caller who sorts after the item's owner.
C7_Witness ==
    \E r \in Reqs :
        /\ req[r].pc \in ConvDerived
        /\ StrLess(req[r].item.userId, req[r].userId)

\* C8: startConversation with an itemId for which no item record exists is
\* answered 404 and writes nothing.
C8_MissingItemNotFound ==
    [][(/\ response'.status # 0
        /\ response'.status # 401
        /\ response'.route = PostConversations
        /\ ItemKey(response'.arg) \notin DOMAIN kv)
          => /\ response'.status = 404
             /\ response'.sets = 0
             /\ kv' = kv]_vars

\* C8 witness: a startConversation on a missing item was answered.
C8_Witness ==
    /\ Answered(PostConversations)
    /\ ItemKey(response.arg) \notin DOMAIN kv

\* C9: every stored conversation has exactly two distinct participants.
C9_TwoDistinctParticipants ==
    \A k \in ConversationKeys :
        /\ Len(kv[k].participants) = 2
        /\ kv[k].participants[1] # kv[k].participants[2]

\* C10: the sender of every persisted message is a participant of the
\* conversation the message names.
C10_SenderIsParticipant ==
    \A k \in MessageKeys :
        /\ ConversationKey(kv[k].conversationId) \in DOMAIN kv
        /\ Includes(kv[ConversationKey(kv[k].conversationId)].participants, kv[k].senderId)

\* C10 witness: a message is stored while another user, not a participant
\* of its conversation, has a session.
C10_Witness ==
    \E k \in MessageKeys :
        \E u \in Users :
            ~Includes(kv[ConversationKey(kv[k].conversationId)].participants, u)

UserConversationKeys == {k \in DOMAIN kv : IsUserConversationKey(k)}

\* C11: every stored conversation has lastMessageAt >= createdAt, whatever
\* startConversation and send operations have interleaved.
C11_LastMessageAtNotBeforeCreatedAt ==
    \A k \in ConversationKeys :
        GetTime(kv[k].lastMessageAt) >= GetTime(kv[k].createdAt)

\* C11 witness: a conversation that a send has bumped, its lastMessageAt
\* later than its createdAt, while a message of it is stored.
C11_Witness ==
    \E k \in ConversationKeys :
        /\ GetTime(kv[k].lastMessageAt) > GetTime(kv[k].createdAt)
        /\ \E m \in MessageKeys :
              /\ kv[m].conversationId = kv[k].id
              /\ kv[m].createdAt = kv[k].lastMessageAt

\* C12: a startConversation that finds a record under the derived id returns
\* that record as stored and writes nothing: the store (the record's
\* createdAt, lastMessageAt and participants, and the userConversation
\* entries) is the same after the step, and the request has made no write.
C12_ExistingReturnedUnchanged ==
    [][\A r \in Reqs :
          (/\ ConvGetExisting(r)
           /\ ConversationKey(req[r].conversationId) \in DOMAIN kv)
              => /\ kv' = kv
                 /\ response'.status = 200
                 /\ response'.body.conversation = kv[ConversationKey(req[r].conversationId)]
                 /\ response'.sets = 0]_vars

\* C12 witness: a startConversation was answered from an existing record
\* that a send had bumped since its creation.
C12_Witness ==
    /\ response.status = 200
    /\ response.route = PostConversations
    /\ response.sets = 0
    /\ ConversationKey(response.body.conversation.id) \in DOMAIN kv
    /\ response.body.conversation = kv[ConversationKey(response.body.conversation.id)]
    /\ response.body.conversation.lastMessageAt # response.body.conversation.createdAt
    /\ UserConversationKeys # {}

\* C13: listMessages on a conversation id with no record is answered 404,
\* and by an authenticated caller who is not a participant of the existing
\* conversation 403; the answer carries no messages, and it is given by the
\* handler's first step, before the message prefix is scanned.
C13_ListMessagesGuarded ==
    [][(/\ response'.status # 0
        /\ response'.status # 401
        /\ response'.route = GetMessages
        /\ \/ ConversationKey(response'.arg) \notin DOMAIN kv
           \/ ~Includes(kv[ConversationKey(response'.arg)].participants, response'.userId))
          => /\ response'.status =
                    IF ConversationKey(response'.arg) \notin DOMAIN kv THEN 404 ELSE 403
             /\ "messages" \notin DOMAIN response'.body
             /\ \E r \in Reqs : req[r].pc = "lm_get" /\ req'[r].pc = "idle"
             /\ kv' = kv]_vars

\* C13 witness: a non-participant asked for a conversation that has a
\* stored message, and was answered.
C13_Witness ==
    /\ Answered(GetMessages)
    /\ ConversationKey(response.arg) \in DOMAIN kv
    /\ ~Includes(kv[ConversationKey(response.arg)].participants, response.userId)
    /\ \E m \in MessageKeys : kv[m].conversationId = response.arg

\* The conversation ids in the userConversation index of user u.
IndexOf(u) ==
    {kv[k] : k \in {x \in UserConversationKeys : StartsWith(x, UserConversationPrefix(u))}}

\* C14: listConversationsFor answers 200 with the caller's conversations in
\* descending order of lastMessageAt: each index entry whose record resolves
\* appears once, as stored, and no other entry appears.
C14_ListConversationsSortedAndResolved ==
    Answered(GetConversations)
        => /\ response.status = 200
           /\ LET cs == response.body.conversations
              IN  /\ \A i, j \in 1..Len(cs) :
                        i < j => GetTime(cs[i].lastMessageAt) >= GetTime(cs[j].lastMessageAt)
                  /\ \A i, j \in 1..Len(cs) : i # j => cs[i].id # cs[j].id
                  /\ {cs[i].id : i \in 1..Len(cs)}
                        = {id \in IndexOf(response.userId) : ConversationKey(id) \in DOMAIN kv}
                  /\ \A i \in 1..Len(cs) :
                        /\ cs[i].lastMessageAt = kv[ConversationKey(cs[i].id)].lastMessageAt
                        /\ cs[i].participants = kv[ConversationKey(cs[i].id)].participants

\* C14 witness: a list of two conversations with different lastMessageAt
\* was returned.
C14_Witness ==
    /\ Answered(GetConversations)
    /\ response.status = 200
    /\ Len(response.body.conversations) >= 2
    /\ GetTime(response.body.conversations[1].lastMessageAt)
          > GetTime(response.body.conversations[2].lastMessageAt)

\* C15: the conversation that a creating startConversation stores and
\* returns has as participants the caller and the item's owner in ascending
\* order, and as id participants[0] + "_" + participants[1] + "_" + itemId;
\* caller a, owner b, item i give a_b_i.
C15_CreatedConversationShape ==
    (/\ response.status = 200
     /\ response.route = PostConversations
     /\ response.sets = 3)
        => LET c == response.body.conversation
               caller == response.userId
               owner == kv[ItemKey(response.arg)].userId
           IN  /\ c.participants \in {<<caller, owner>>, <<owner, caller>>}
               /\ ~StrLess(c.participants[2], c.participants[1])
               /\ c.id = c.participants[1] \o <<"_">> \o c.participants[2]
                            \o <<"_">> \o response.arg
               /\ c.itemId = response.arg
               /\ ConversationKey(c.id) \in DOMAIN kv
               /\ kv[ConversationKey(c.id)] = c
               /\ (caller = UserA /\ owner = UserB /\ response.arg = Item1)
                     => c.id = <<"a", "_", "b", "_", "i">>

\* C15 witness: a conversation was created by a caller whose id sorts after
\* the owner's, so that the sort exchanged the two.
C15_Witness ==
    /\ response.status = 200
    /\ response.route = PostConversations
    /\ response.sets = 3
    /\ StrLess(kv[ItemKey(response.arg)].userId, response.userId)
    /\ response.body.conversation.participants[2] = response.userId

\* C16: the list returned by listMessages is ascending in createdAt, two
\* messages with equal createdAt are in ascending order of their ids, and
\* the list holds every stored message of the conversation exactly once.
C16_ListMessagesSortedWithIdTiebreak ==
    (Answered(GetMessages) /\ response.status = 200)
        => LET ms == response.body.messages
           IN  /\ \A i, j \in 1..Len(ms) :
                     i < j => /\ GetTime(ms[i].createdAt) <= GetTime(ms[j].createdAt)
                              /\ GetTime(ms[i].createdAt) = GetTime(ms[j].createdAt)
                                    => StrLess(ms[i].id, ms[j].id)
               /\ \A i, j \in 1..Len(ms) : i # j => ms[i].id # ms[j].id
               /\ {ms[i].id : i \in 1..Len(ms)}
                     = {kv[k].id : k \in {m \in MessageKeys :
                                             kv[m].conversationId = response.arg}}

\* C17: of two messages stored in the same conversation, the one sent
\* earlier has the lexicographically smaller id.
C17_MessageIdsInSendOrder ==
    \A k1, k2 \in MessageKeys :
        (/\ kv[k1].conversationId = kv[k2].conversationId
         /\ Position(sendOrder, kv[k1].id) < Position(sendOrder, kv[k2].id))
            => StrLess(kv[k1].id, kv[k2].id)

\* C18: when a startConversation or a send is answered with an error,
\* nothing the call wrote is in the store: not the conversation record it
\* built nor an index entry for it, not the message it built, and the
\* conversation of the message is as the call read it.
C18_ErrorLeavesNothingBehind ==
    [][\A r \in Reqs :
          (/\ req[r].pc # "idle"
           /\ req'[r].pc = "idle"
           /\ response'.status >= 400
           /\ response'.route \in PostRoutes)
              => /\ (response'.route = PostConversations /\ req[r].conversation # Null)
                       => /\ ConversationKey(req[r].conversationId) \notin DOMAIN kv'
                          /\ \A u \in Users :
                                UserConversationKey(u, req[r].conversationId)
                                    \notin DOMAIN kv'
                 /\ (response'.route = PostMessages /\ req[r].message # Null)
                       => /\ MessageKey(req[r].message.id) \notin DOMAIN kv'
                          /\ kv'[ConversationKey(req[r].arg)] = req[r].conversation]_vars

\* C19: send checks its preconditions in a fixed order and stops at the
\* first that fails: 404 for a missing conversation whatever the caller and
\* the text, else 403 for a caller who is not a participant whatever the
\* text, else 400 for a blank text; and a request that fails one of them has
\* written nothing (a store failure, answered 500, aside).
C19_SendPreconditionOrder ==
    (Answered(PostMessages) /\ response.status # 500)
        => /\ response.status =
                  IF ConversationKey(response.arg) \notin DOMAIN kv THEN 404
                  ELSE IF ~Includes(kv[ConversationKey(response.arg)].participants,
                                    response.userId) THEN 403
                  ELSE IF Trim(response.text) = <<>> THEN 400
                  ELSE 200
           /\ response.status # 200 => response.sets = 0

\* C20: a stored conversation record is never deleted, and no step changes
\* its id, itemId, participants or createdAt.
C20_ConversationImmutableButLastMessageAt ==
    [][\A k \in ConversationKeys :
          /\ k \in DOMAIN kv'
          /\ kv'[k].id = kv[k].id
          /\ kv'[k].itemId = kv[k].itemId
          /\ kv'[k].participants = kv[k].participants
          /\ kv'[k].createdAt = kv[k].createdAt]_vars

\* C21: a message that a successful send stored stays in the store as it
\* is: the answer of a successful send carries the message stored under its
\* id, and no step, of a racing send or of any other request, changes or
\* removes a stored message.
C21_MessagesImmutable ==
    /\ []((response.status = 200 /\ response.route = PostMessages)
            => /\ MessageKey(response.body.message.id) \in DOMAIN kv
               /\ kv[MessageKey(response.body.message.id)] = response.body.message)
    /\ [][\A k \in MessageKeys : k \in DOMAIN kv' /\ kv'[k] = kv[k]]_vars

\* C21 witness: two sends race on one conversation in the same millisecond,
\* both have stored their message and neither has yet written the
\* conversation.
C21_Witness ==
    \E r1, r2 \in Reqs :
        /\ r1 # r2
        /\ req[r1].pc = "send_set_conversation"
        /\ req[r2].pc = "send_set_conversation"
        /\ req[r1].arg = req[r2].arg
        /\ req[r1].message.createdAt = req[r2].message.createdAt
        /\ MessageKey(req[r1].message.id) \in DOMAIN kv
        /\ MessageKey(req[r2].message.id) \in DOMAIN kv
        /\ req[r1].message.id # req[r2].message.id

\* C22: a read does not fail for a missing user profile and shows the
\* placeholder instead: listMessages gives senderName "Unknown" for a
\* message whose sender has no user record, getItem gives userName
\* "Unknown" for an item whose owner has no user record, and
\* listConversations gives an otherUser named "Unknown" for a conversation
\* whose other participant has no user record.
C22_MissingUserPlaceholder ==
    /\ (/\ Answered(GetMessages)
        /\ ConversationKey(response.arg) \in DOMAIN kv
        /\ Includes(kv[ConversationKey(response.arg)].participants, response.userId))
          => /\ response.status = 200
             /\ \A i \in 1..Len(response.body.messages) :
                   UserKey(response.body.messages[i].senderId) \notin DOMAIN kv
                       => response.body.messages[i].senderName = Unknown
    /\ (/\ response.status # 0
        /\ response.route = GetItem
        /\ ItemKey(response.arg) \in DOMAIN kv)
          => /\ response.status = 200
             /\ UserKey(kv[ItemKey(response.arg)].userId) \notin DOMAIN kv
                   => response.body.item.userName = Unknown
    /\ Answered(GetConversations)
          => /\ response.status = 200
             /\ \A i \in 1..Len(response.body.conversations) :
                   LET c == response.body.conversations[i]
                   IN  (\E u \in Members(c.participants) \ {response.userId} :
                            UserKey(u) \notin DOMAIN kv)
                          => /\ c.otherUser # Null
                             /\ c.otherUser.name = Unknown

\* C24: in every state of the store, those inside a startConversation and
\* those left by a failed write included, each userConversation index entry
\* of a user names a stored conversation whose participants contain that
\* user; and listConversations returns to a user only conversations the
\* user is a participant of.
C24_IndexEntriesValid ==
    /\ \A k \in UserConversationKeys :
          /\ ConversationKey(kv[k]) \in DOMAIN kv
          /\ \E u \in Users :
                /\ k = UserConversationKey(u, kv[k])
                /\ Includes(kv[ConversationKey(kv[k])].participants, u)
    /\ (Answered(GetConversations) /\ response.status = 200)
          => \A i \in 1..Len(response.body.conversations) :
                Includes(response.body.conversations[i].participants, response.userId)

\* C24 witness: a startConversation failed on its last write: the record
\* and the caller's index entry are stored, the owner's entry is not.
C24_Witness ==
    /\ response.status = 500
    /\ response.route = PostConversations
    /\ response.sets = 2
    /\ \E k \in UserConversationKeys :
          /\ k = UserConversationKey(response.userId, kv[k])
          /\ UserConversationKey(kv[ItemKey(response.arg)].userId, kv[k]) \notin DOMAIN kv

\* C25: when two startConversation requests for the same pair and item both
\* find no conversation, the store holds one conversation record for them
\* and one index entry per participant, and the later of their two writes
\* of the record leaves it as the earlier one stored and returned it: the
\* same createdAt, and a lastMessageAt not moved backward when a send has
\* completed in between.
C25_ConcurrentStartConversation ==
    /\ [](/\ \A u \in Users : Cardinality(RecordsFor(u, Item1)) <= 1
          /\ \A k \in ConversationKeys : k = ConversationKey(kv[k].id)
          /\ \A k \in UserConversationKeys :
                \E u \in Users : k = UserConversationKey(u, kv[k]))
    /\ [][\A r \in Reqs, ok \in BOOLEAN :
             (/\ ConvSetConversation(r, ok)
              /\ ConversationKey(req[r].conversationId) \in DOMAIN kv)
                 => LET k == ConversationKey(req[r].conversationId)
                    IN  /\ kv'[k].createdAt = kv[k].createdAt
                        /\ GetTime(kv'[k].lastMessageAt)
                              >= GetTime(kv[k].lastMessageAt)]_vars

\* The dialog's message list holds the message.
Displayed(messageId) ==
    \E i \in 1..Len(dialog.messages) : dialog.messages[i].id = messageId

\* The chat is shown on a conversation.
ChatShown == dialog.showChat /\ dialog.conversationId # <<>>

\* The list holds every message stored for the dialog's conversation.
AllDisplayed ==
    \A k \in MessageKeys :
        kv[k].conversationId = dialog.conversationId => Displayed(kv[k].id)

C26_ChatBelongsToDisplayedItem ==
    (ItemShown /\ dialog.showChat /\ dialog.conversationId # <<>>)
        => /\ ConversationKey(dialog.conversationId) \in DOMAIN kv
           /\ kv[ConversationKey(dialog.conversationId)].itemId = dialog.item.id

=============================================================================
